---- MODULE Spec2Model ----
(***************************************************************************)
(* Model of src/jira_issue.py: the Open WebUI tool Tools.get_issue, the    *)
(* Jira REST client it drives (Jira.get, Jira.get_issue,                   *)
(* Jira.get_comments) and the EventEmitter that forwards status, message   *)
(* and citation events to the host-supplied sink.                          *)
(*                                                                         *)
(* Text values (f-strings, "\n\n".join, json.dumps) are sequences of       *)
(* string tokens; concatenation of text is concatenation of sequences.     *)
(* A Python call that may raise is an operator returning Ok(v) or          *)
(* Raise(e).  The environment is the two HTTP responses of a call and, at  *)
(* every invocation of the sink, whether the sink raises.                  *)
(***************************************************************************)
EXTENDS Naturals, Sequences, FiniteSets, TLC

VARIABLES
    EMIT_EVENTS,   \* [call -> BOOLEAN]: the module global read by the call
    issue_id,      \* [call -> STRING]: argument issue_id
    issueResp,     \* [call -> HTTP response] the host answers GET issue/{id}
    commentResp,   \* [call -> HTTP response] the host answers GET issue/{id}/comment
    pc,            \* [call -> position in Tools.get_issue]
    jira,          \* [object -> Jira instance]        (local `jira`)
    event_emitter, \* [object -> EventEmitter instance] (local `event_emitter`)
    response,      \* [call -> issue record or None]    (local `response`)
    exc,           \* [call -> exception bound by `except Exception as e`]
    trace,         \* [call -> sequence of HTTP requests and sink invocations]
    ret            \* [call -> outcome seen by the caller]

vars == <<EMIT_EVENTS, issue_id, issueResp, commentResp, pc, jira,
          event_emitter, response, exc, trace, ret>>

(***************************************************************************)
(* Bounds                                                                  *)
(***************************************************************************)
MaxComments == 2

Calls == {1, 2}

IssueIds == {"ABC-1", "ABC-2"}

(***************************************************************************)
(* Python values                                                           *)
(***************************************************************************)
None == [kind |-> "None"]

Ok(v) == [ok |-> TRUE, val |-> v]

Raise(e) == [ok |-> FALSE, exc |-> e]

Exception(type, msg) == [type |-> type, msg |-> msg]

KeyError(key) == Exception("KeyError", <<"'", key, "'">>)

SinkError == Exception("SinkError", <<"sink failed">>)

SeqsUpTo(S, n) == UNION {[1..k -> S] : k \in 0..n}

(***************************************************************************)
(* Tools.Valves defaults                                                   *)
(***************************************************************************)
valves ==
    [username |-> "<user>@<org>.ai",
     api_key  |-> "<key>",
     base_url |-> "https://<org>.atlassian.net/"]

(***************************************************************************)
(* HTTP responses of the Jira server.  `json` says whether the body parses *)
(* as JSON; `body` is the parsed body when it does.                        *)
(***************************************************************************)
HttpResponse(status, isJson, body) ==
    [status |-> status, json |-> isJson, body |-> body]

GoodIssueBody ==
    [key |-> "issue",
     fields |-> [summary |-> "Login fails",
                 status  |-> [name |-> "Open", id |-> "1"]],
     renderedFields |-> [description |-> "<p>Steps</p>"]]

IssueBodies ==
    {GoodIssueBody,
     [key |-> "issue", renderedFields |-> [description |-> "<p>Steps</p>"]],
     [key |-> "issue", fields |-> [summary |-> "Login fails"],
      renderedFields |-> [description |-> "<p>Steps</p>"]]}

ErrorBody == [errorMessages |-> "Issue does not exist"]

FailedResponses ==
    {HttpResponse(404, TRUE, ErrorBody),
     HttpResponse(503, FALSE, None),
     HttpResponse(304, FALSE, None),
     HttpResponse(200, FALSE, None)}

IssueResponses ==
    {HttpResponse(200, TRUE, b) : b \in IssueBodies} \cup FailedResponses

RawComment(author, body) ==
    [id |-> "10000",
     author |-> [displayName |-> author, accountId |-> "5b10"],
     body |-> body,
     created |-> "2024-01-01T00:00:00"]

BadComment == [id |-> "10001", body |-> "orphan", created |-> "2024-01-02T00:00:00"]

RawComments ==
    {RawComment(a, b) : a \in {"alice", "bob"}, b \in {"first", "second"}}
        \cup {BadComment}

CommentBodies(domain) ==
    {[maxResults |-> "50", comments |-> cs] : cs \in SeqsUpTo(domain, MaxComments)}
        \cup {[maxResults |-> "50"]}

CommentResponsesOver(domain) ==
    {HttpResponse(200, TRUE, b) : b \in CommentBodies(domain)} \cup FailedResponses

CommentResponses == CommentResponsesOver(RawComments)

(***************************************************************************)
(* Jira                                                                    *)
(***************************************************************************)
Request(endpoint) == [kind |-> "request", endpoint |-> endpoint]

Jira_init(base_url) == [base_url |-> base_url]

\* requests' raise_for_status raises HTTPError for 4xx and 5xx.
raise_for_status(resp) ==
    IF 400 <= resp.status /\ resp.status < 600
    THEN Raise(Exception("HTTPError", <<ToString(resp.status), " Error">>))
    ELSE Ok(None)

Jira_get(resp) ==
    IF ~raise_for_status(resp).ok THEN raise_for_status(resp)
    ELSE IF ~resp.json
         THEN Raise(Exception("JSONDecodeError", <<"Expecting value">>))
         ELSE Ok(resp.body)

MapComment(comment) ==
    IF "author" \notin DOMAIN comment THEN Raise(KeyError("author"))
    ELSE IF "displayName" \notin DOMAIN comment.author
         THEN Raise(KeyError("displayName"))
    ELSE IF "body" \notin DOMAIN comment THEN Raise(KeyError("body"))
    ELSE IF "created" \notin DOMAIN comment THEN Raise(KeyError("created"))
    ELSE Ok([author  |-> comment.author.displayName,
             body    |-> comment.body,
             created |-> comment.created])

\* Faulty variant of AppendComments: inserts each comment at the front of the list.
RECURSIVE PrependComments(_, _)
PrependComments(comments, rest) ==
    IF rest = <<>> THEN Ok(comments)
    ELSE IF ~MapComment(Head(rest)).ok THEN MapComment(Head(rest))
    ELSE PrependComments(<<MapComment(Head(rest)).val>> \o comments, Tail(rest))

RECURSIVE AppendComments(_, _)
AppendComments(comments, rest) ==
    IF rest = <<>> THEN Ok(comments)
    ELSE IF ~MapComment(Head(rest)).ok THEN MapComment(Head(rest))
    ELSE AppendComments(Append(comments, MapComment(Head(rest)).val), Tail(rest))

Jira_get_comments(resp) ==
    LET result == Jira_get(resp) IN
    IF ~result.ok THEN result
    ELSE AppendComments(<<>>, IF "comments" \in DOMAIN result.val
                              THEN result.val.comments ELSE <<>>)

IssueRecord(self, id, result, comments) ==
    IF "fields" \notin DOMAIN result THEN Raise(KeyError("fields"))
    ELSE IF "summary" \notin DOMAIN result.fields THEN Raise(KeyError("summary"))
    ELSE IF "renderedFields" \notin DOMAIN result
         THEN Raise(KeyError("renderedFields"))
    ELSE IF "description" \notin DOMAIN result.renderedFields
         THEN Raise(KeyError("description"))
    ELSE IF "status" \notin DOMAIN result.fields THEN Raise(KeyError("status"))
    ELSE IF "name" \notin DOMAIN result.fields.status THEN Raise(KeyError("name"))
    ELSE Ok([title       |-> result.fields.summary,
             description |-> result.renderedFields.description,
             status      |-> result.fields.status.name,
             link        |-> <<self.base_url, "/browse/", id>>,
             comments    |-> comments])

IssueEndpoint(id) == <<"issue/", id>>

CommentEndpoint(id) == <<"issue/", id, "/comment">>

\* Faulty variant of Jira_get_issue: a failed comment fetch yields the issue without
\* comments instead of failing the whole fetch.
Jira_get_issue_partial(self, id, iresp, cresp) ==
    LET result == Jira_get(iresp) IN
    IF ~result.ok
    THEN [reqs |-> <<Request(IssueEndpoint(id))>>, out |-> result]
    ELSE LET comments == Jira_get_comments(cresp)
             both == <<Request(IssueEndpoint(id)), Request(CommentEndpoint(id))>>
         IN  [reqs |-> both,
              out  |-> IssueRecord(self, id, result.val,
                                   IF comments.ok THEN comments.val ELSE <<>>)]

\* Jira.get_issue: the requests it issues, in order, and what it returns or raises.
Jira_get_issue(self, id, iresp, cresp) ==
    LET result == Jira_get(iresp) IN
    IF ~result.ok
    THEN [reqs |-> <<Request(IssueEndpoint(id))>>, out |-> result]
    ELSE LET comments == Jira_get_comments(cresp)
             both == <<Request(IssueEndpoint(id)), Request(CommentEndpoint(id))>>
         IN  IF ~comments.ok
             THEN [reqs |-> both, out |-> comments]
             ELSE [reqs |-> both,
                   out  |-> IssueRecord(self, id, result.val, comments.val)]

(***************************************************************************)
(* EventEmitter: the event each emit_* passes to the sink                  *)
(***************************************************************************)
\* Faulty variant of emit_status: the status strings are exchanged.
emit_status_swapped(description, done, error) ==
    [type |-> "status",
     data |-> [description |->
                   <<IF done THEN (IF error THEN "CROSS_MARK" ELSE "CHECK_MARK")
                             ELSE "MAGNIFIER", " ">> \o description,
               status |-> IF done THEN "in_progress" ELSE "complete",
               done   |-> done]]

emit_status(description, done, error) ==
    [type |-> "status",
     data |-> [description |->
                   <<IF done THEN (IF error THEN "CROSS_MARK" ELSE "CHECK_MARK")
                             ELSE "MAGNIFIER", " ">> \o description,
               status |-> IF done THEN "complete" ELSE "in_progress",
               done   |-> done]]

emit_message(content) == [type |-> "message", data |-> [content |-> content]]

emit_source(name, url, content, html) ==
    [type |-> "citation",
     data |-> [document |-> <<content>>,
               metadata |-> <<[source |-> url, html |-> html]>>,
               source   |-> [name |-> name]]]

(***************************************************************************)
(* Text built by Tools.get_issue                                           *)
(***************************************************************************)
RECURSIVE Join(_, _)
Join(sep, parts) ==
    IF parts = <<>> THEN <<>>
    ELSE IF Len(parts) = 1 THEN Head(parts)
    ELSE Head(parts) \o <<sep>> \o Join(sep, Tail(parts))

\* Faulty variant of CommentLine: the author is left out.
CommentLine_no_author(comment) ==
    <<"(", comment.created, "): ", comment.body>>

CommentLine(comment) ==
    <<"**", comment.author, "** (", comment.created, "): ", comment.body>>

comments_content(comments) ==
    Join("\n\n", [i \in 1..Len(comments) |-> CommentLine(comments[i])])

JsonString(text) == <<"\"">> \o text \o <<"\"">>

JsonComment(comment) ==
    <<"{\"author\": ">> \o JsonString(<<comment.author>>)
        \o <<", \"body\": ">> \o JsonString(<<comment.body>>)
        \o <<", \"created\": ">> \o JsonString(<<comment.created>>) \o <<"}">>

json_dumps(record) ==
    <<"{\"title\": ">> \o JsonString(<<record.title>>)
        \o <<", \"description\": ">> \o JsonString(<<record.description>>)
        \o <<", \"status\": ">> \o JsonString(<<record.status>>)
        \o <<", \"link\": ">> \o JsonString(record.link)
        \o <<", \"comments\": [">>
        \o Join(", ", [i \in 1..Len(record.comments) |->
                           JsonComment(record.comments[i])])
        \o <<"]}">>

ErrorString(e) == <<"Error: ">> \o e.msg

Returned(text) == [kind |-> "return", value |-> text]

Raised(e) == [kind |-> "raise", exc |-> e]

(***************************************************************************)
(* Tools.get_issue, one action per statement group; every `await` of an    *)
(* emission ends a group.  Calls may interleave between any two groups,    *)
(* which includes every interleaving at the awaits.  Each call owns the    *)
(* objects it constructs.                                                  *)
(***************************************************************************)
\* Faulty variant of ObjectOf: client and notifier are kept in one shared object.
SharedObject(c) == 1

ObjectOf(c) == c

SinkEntry(sink, event, raised) ==
    [kind |-> "event", sink |-> sink, event |-> event, raised |-> raised]

\* `await event_emitter.emit_*(...)` inside the try block: the sink is invoked
\* with `event`; it returns, or raises and control moves to the except clause.
AwaitEmit(c, event, raised, next) ==
    /\ trace' = [trace EXCEPT ![c] =
                    Append(@, SinkEntry(event_emitter[ObjectOf(c)], event, raised))]
    /\ IF raised
       THEN /\ exc' = [exc EXCEPT ![c] = SinkError]
            /\ pc' = [pc EXCEPT ![c] = "except"]
       ELSE /\ exc' = exc
            /\ pc' = [pc EXCEPT ![c] = next]

Skip(c, next) ==
    /\ pc' = [pc EXCEPT ![c] = next]
    /\ UNCHANGED <<exc, trace>>

Construct(c) ==
    /\ pc[c] = "start"
    /\ jira' = [jira EXCEPT ![ObjectOf(c)] = Jira_init(valves.base_url)]
    /\ event_emitter' = [event_emitter EXCEPT ![ObjectOf(c)] = c]
    /\ pc' = [pc EXCEPT ![c] = "getting"]
    /\ UNCHANGED <<EMIT_EVENTS, issue_id, issueResp, commentResp, response,
                   exc, trace, ret>>

EmitGetting(c) ==
    /\ pc[c] = "getting"
    /\ IF EMIT_EVENTS[c]
       THEN \E raised \in BOOLEAN :
                AwaitEmit(c, emit_status(<<"Getting issue ", issue_id[c]>>,
                                         FALSE, FALSE), raised, "fetch")
       ELSE Skip(c, "fetch")
    /\ UNCHANGED <<EMIT_EVENTS, issue_id, issueResp, commentResp, jira,
                   event_emitter, response, ret>>

Fetch(c) ==
    /\ pc[c] = "fetch"
    /\ LET r == Jira_get_issue(jira[ObjectOf(c)], issue_id[c],
                               issueResp[c], commentResp[c])
       IN  /\ trace' = [trace EXCEPT ![c] = @ \o r.reqs]
           /\ IF r.out.ok
              THEN /\ response' = [response EXCEPT ![c] = r.out.val]
                   /\ exc' = exc
                   /\ pc' = [pc EXCEPT ![c] = "source"]
              ELSE /\ response' = response
                   /\ exc' = [exc EXCEPT ![c] = r.out.exc]
                   /\ pc' = [pc EXCEPT ![c] = "except"]
    /\ UNCHANGED <<EMIT_EVENTS, issue_id, issueResp, commentResp, jira,
                   event_emitter, ret>>

EmitSource(c) ==
    /\ pc[c] = "source"
    /\ IF EMIT_EVENTS[c]
       THEN \E raised \in BOOLEAN :
                AwaitEmit(c, emit_source(response[c].title, response[c].link,
                                         response[c].description, TRUE),
                          raised, "comments")
       ELSE Skip(c, "comments")
    /\ UNCHANGED <<EMIT_EVENTS, issue_id, issueResp, commentResp, jira,
                   event_emitter, response, ret>>

EmitComments(c) ==
    /\ pc[c] = "comments"
    /\ IF response[c].comments # <<>> /\ EMIT_EVENTS[c]
       THEN \E raised \in BOOLEAN :
                AwaitEmit(c, emit_message(<<"Comments:\n\n">>
                                 \o comments_content(response[c].comments)),
                          raised, "complete")
       ELSE Skip(c, "complete")
    /\ UNCHANGED <<EMIT_EVENTS, issue_id, issueResp, commentResp, jira,
                   event_emitter, response, ret>>

EmitComplete(c) ==
    /\ pc[c] = "complete"
    /\ IF EMIT_EVENTS[c]
       THEN \E raised \in BOOLEAN :
                AwaitEmit(c, emit_status(<<"Got issue ", issue_id[c]>>,
                                         TRUE, FALSE), raised, "return")
       ELSE Skip(c, "return")
    /\ UNCHANGED <<EMIT_EVENTS, issue_id, issueResp, commentResp, jira,
                   event_emitter, response, ret>>

\* Faulty variant of ReturnJson: the return statement is under `if EMIT_EVENTS:`.
ReturnJson_gated(c) ==
    /\ pc[c] = "return"
    /\ ret' = [ret EXCEPT ![c] = IF EMIT_EVENTS[c]
                                  THEN Returned(json_dumps(response[c]))
                                  ELSE Returned(<<"None">>)]
    /\ pc' = [pc EXCEPT ![c] = "returned"]
    /\ UNCHANGED <<EMIT_EVENTS, issue_id, issueResp, commentResp, jira,
                   event_emitter, response, exc, trace>>

ReturnJson(c) ==
    /\ pc[c] = "return"
    /\ ret' = [ret EXCEPT ![c] = Returned(json_dumps(response[c]))]
    /\ pc' = [pc EXCEPT ![c] = "returned"]
    /\ UNCHANGED <<EMIT_EVENTS, issue_id, issueResp, commentResp, jira,
                   event_emitter, response, exc, trace>>

\* Faulty variant of Except: the failure status is emitted without reading EMIT_EVENTS.
Except_ungated(c) ==
    /\ pc[c] = "except"
    /\ \E raised \in BOOLEAN :
           /\ trace' = [trace EXCEPT ![c] = Append(@,
                  SinkEntry(event_emitter[ObjectOf(c)],
                            emit_status(<<"Failed to get issue ",
                                          issue_id[c], ": ">> \o exc[c].msg,
                                        TRUE, TRUE),
                            raised))]
           /\ IF raised
              THEN /\ ret' = [ret EXCEPT ![c] = Raised(SinkError)]
                   /\ pc' = [pc EXCEPT ![c] = "raised"]
              ELSE /\ ret' = [ret EXCEPT ![c] = Returned(ErrorString(exc[c]))]
                   /\ pc' = [pc EXCEPT ![c] = "returned"]
    /\ UNCHANGED <<EMIT_EVENTS, issue_id, issueResp, commentResp, jira,
                   event_emitter, response, exc>>

\* except Exception as e: the emission here is outside any try block, so a
\* sink that raises ends the coroutine with that exception.
Except(c) ==
    /\ pc[c] = "except"
    /\ IF EMIT_EVENTS[c]
       THEN \E raised \in BOOLEAN :
                /\ trace' = [trace EXCEPT ![c] = Append(@,
                       SinkEntry(event_emitter[ObjectOf(c)],
                                 emit_status(<<"Failed to get issue ",
                                               issue_id[c], ": ">> \o exc[c].msg,
                                             TRUE, TRUE),
                                 raised))]
                /\ IF raised
                   THEN /\ ret' = [ret EXCEPT ![c] = Raised(SinkError)]
                        /\ pc' = [pc EXCEPT ![c] = "raised"]
                   ELSE /\ ret' = [ret EXCEPT ![c] = Returned(ErrorString(exc[c]))]
                        /\ pc' = [pc EXCEPT ![c] = "returned"]
       ELSE /\ trace' = trace
            /\ ret' = [ret EXCEPT ![c] = Returned(ErrorString(exc[c]))]
            /\ pc' = [pc EXCEPT ![c] = "returned"]
    /\ UNCHANGED <<EMIT_EVENTS, issue_id, issueResp, commentResp, jira,
                   event_emitter, response, exc>>

Next ==
    \E c \in Calls :
        \/ Construct(c)
        \/ EmitGetting(c)
        \/ Fetch(c)
        \/ EmitSource(c)
        \/ EmitComments(c)
        \/ EmitComplete(c)
        \/ ReturnJson(c)
        \/ Except(c)

(***************************************************************************)
(* Initial states                                                          *)
(***************************************************************************)
Fresh ==
    /\ jira = [o \in Calls |-> None]
    /\ event_emitter = [o \in Calls |-> 0]
    /\ response = [c \in Calls |-> None]
    /\ exc = [c \in Calls |-> None]
    /\ trace = [c \in Calls |-> <<>>]
    /\ ret = [c \in Calls |-> None]

\* One invocation of the tool, any switch value, any pair of HTTP responses.
Init ==
    /\ Fresh
    /\ \E e \in BOOLEAN : EMIT_EVENTS = [c \in Calls |-> e]
    /\ \E id \in IssueIds : issue_id = [c \in Calls |-> id]
    /\ \E r \in IssueResponses : issueResp = [c \in Calls |-> r]
    /\ \E r \in CommentResponses : commentResp = [c \in Calls |-> r]
    /\ pc = [c \in Calls |-> IF c = 1 THEN "start" ELSE "idle"]

Spec == Init /\ [][Next]_vars

(***************************************************************************)
(* Two processes that differ only in the value of EMIT_EVENTS: call 1 runs *)
(* with the switch off, call 2 with it on, both with the same issue id and *)
(* the same two HTTP responses.                                            *)
(***************************************************************************)
FewComments == {RawComment("alice", "first"), BadComment}

InitPair ==
    /\ Fresh
    /\ EMIT_EVENTS = [c \in Calls |-> c = 2]
    /\ \E id \in IssueIds : issue_id = [c \in Calls |-> id]
    /\ \E r \in IssueResponses : issueResp = [c \in Calls |-> r]
    /\ \E r \in CommentResponsesOver(FewComments) :
           commentResp = [c \in Calls |-> r]
    /\ pc = [c \in Calls |-> "start"]

SpecPair == InitPair /\ [][Next]_vars

(***************************************************************************)
(* Two concurrent invocations in one process, for different issue ids,     *)
(* each with its own HTTP responses.                                       *)
(***************************************************************************)
ConcIssueResponses ==
    {HttpResponse(200, TRUE, GoodIssueBody), HttpResponse(404, TRUE, ErrorBody)}

ConcCommentResponses ==
    {HttpResponse(200, TRUE, b) : b \in CommentBodies({RawComment("bob", "second")})}
        \cup {HttpResponse(503, FALSE, None)}

InitConc ==
    /\ Fresh
    /\ \E e \in BOOLEAN : EMIT_EVENTS = [c \in Calls |-> e]
    /\ issue_id = [c \in Calls |-> IF c = 1 THEN "ABC-1" ELSE "ABC-2"]
    /\ issueResp \in [Calls -> ConcIssueResponses]
    /\ commentResp \in [Calls -> ConcCommentResponses]
    /\ pc = [c \in Calls |-> "start"]

SpecConc == InitConc /\ [][Next]_vars

(***************************************************************************)
(* Observations used by the properties                                     *)
(***************************************************************************)
Range(s) == {s[i] : i \in 1..Len(s)}

IsEvent(e) == e.kind = "event"

IsRequest(e) == e.kind = "request"

Requests(c) == SelectSeq(trace[c], IsRequest)

SinkCalls(c) == SelectSeq(trace[c], IsEvent)

EventsOfType(c, type) ==
    SelectSeq(trace[c], LAMBDA e : IsEvent(e) /\ e.event.type = type)

IsTerminalStatus(e) ==
    /\ IsEvent(e)
    /\ e.event.type = "status"
    /\ e.event.data.done
    /\ e.event.data.status = "complete"

TerminalStatuses(c) == SelectSeq(trace[c], IsTerminalStatus)

Finished(c) == pc[c] \in {"returned", "raised"}

ReturnedJson(c) ==
    /\ pc[c] = "returned"
    /\ response[c] # None
    /\ ret[c] = Returned(json_dumps(response[c]))

ReturnedError(c) ==
    /\ pc[c] = "returned"
    /\ ret[c].kind = "return"
    /\ Head(ret[c].value) = "Error: "

Is2xx(resp) == 200 <= resp.status /\ resp.status < 300

BothRequests(c) ==
    <<Request(IssueEndpoint(issue_id[c])), Request(CommentEndpoint(issue_id[c]))>>

(***************************************************************************)
(* C1: Tools.get_issue never lets an exception escape to its caller: for   *)
(* every outcome of the HTTP calls, every value of EMIT_EVENTS and every   *)
(* behaviour of the sink, a finished call has returned the issue JSON or   *)
(* a string "Error: {message}".                                            *)
(***************************************************************************)
C1_NoExceptionEscapes ==
    \A c \in Calls :
        Finished(c) => ReturnedJson(c) \/ ReturnedError(c)

(***************************************************************************)
(* C2: with EMIT_EVENTS disabled the sink is never invoked, on any path,   *)
(* and the HTTP requests are issued all the same: the issue request by     *)
(* every finished call, the comment request by every call whose issue      *)
(* request returned a body, both by every call that returns the JSON.      *)
(***************************************************************************)
C2_DisabledNoSinkCalls ==
    \A c \in Calls :
        ~EMIT_EVENTS[c] =>
            /\ SinkCalls(c) = <<>>
            /\ Finished(c) =>
                   /\ pc[c] = "returned"
                   /\ Requests(c) # <<>>
                   /\ Head(Requests(c)) = Request(IssueEndpoint(issue_id[c]))
                   /\ Jira_get(issueResp[c]).ok => Requests(c) = BothRequests(c)
                   /\ ReturnedJson(c) => Requests(c) = BothRequests(c)

C2_Witness ==
    \E c \in Calls :
        /\ ~EMIT_EVENTS[c]
        /\ ReturnedError(c)
        /\ Requests(c) = BothRequests(c)

(***************************************************************************)
(* C4: a call that returns the JSON with events enabled has passed to the  *)
(* sink, in this order and nothing else: a status event with done = FALSE  *)
(* before the first HTTP request, then after the issue request and the     *)
(* comment request a citation event for the issue body, then a message     *)
(* event only if the comment list is non-empty, then a status event with   *)
(* done = TRUE and status "complete".                                      *)
(***************************************************************************)
C4_SuccessEventOrder ==
    \A c \in Calls :
        (EMIT_EVENTS[c] /\ ReturnedJson(c)) =>
            LET t == trace[c]
                hasComments == response[c].comments # <<>>
                n == IF hasComments THEN 6 ELSE 5
            IN  /\ Len(t) = n
                /\ \A i \in {1, 4, n} : IsEvent(t[i]) /\ ~t[i].raised
                /\ t[1].event.type = "status"
                /\ ~t[1].event.data.done
                /\ t[1].event.data.status = "in_progress"
                /\ "Getting issue " \in Range(t[1].event.data.description)
                /\ t[2] = Request(IssueEndpoint(issue_id[c]))
                /\ t[3] = Request(CommentEndpoint(issue_id[c]))
                /\ t[4].event.type = "citation"
                /\ t[4].event.data.document = <<response[c].description>>
                /\ hasComments =>
                       /\ IsEvent(t[5]) /\ ~t[5].raised
                       /\ t[5].event.type = "message"
                /\ IsTerminalStatus(t[n])
                /\ Head(t[n].event.data.description) = "CHECK_MARK"

C4_Witness ==
    \E c \in Calls :
        /\ EMIT_EVENTS[c]
        /\ ReturnedJson(c)
        /\ Len(response[c].comments) = 2
        /\ Len(trace[c]) = 6

(***************************************************************************)
(* C5 as stated: with events enabled, a finished call whose fetched        *)
(* comment list is empty has emitted no message event and one whose        *)
(* fetched comment list is non-empty has emitted exactly one, holding      *)
(* every comment's author and body.                                        *)
(***************************************************************************)
FetchedComments(c) ==
    IF response[c] # None THEN response[c].comments ELSE <<>>

MessageHoldsAll(c) ==
    /\ Len(EventsOfType(c, "message")) = 1
    /\ LET content == EventsOfType(c, "message")[1].event.data.content
           raw == commentResp[c].body.comments
       IN  \A i \in 1..Len(raw) :
               /\ raw[i].author.displayName \in Range(content)
               /\ raw[i].body \in Range(content)

C5_Original ==
    \A c \in Calls :
        (EMIT_EVENTS[c] /\ Finished(c)) =>
            IF FetchedComments(c) = <<>>
            THEN EventsOfType(c, "message") = <<>>
            ELSE MessageHoldsAll(c)

(***************************************************************************)
(* C5 amended: with events enabled, a call emits a message event only      *)
(* after it built the issue record with a non-empty comment list and its   *)
(* citation emission returned; once such a call is past the comment step   *)
(* it has emitted exactly one message event, holding every comment's       *)
(* author and body; in every other case it has emitted none.               *)
(***************************************************************************)
CitationReturned(c) ==
    \E i \in 1..Len(trace[c]) :
        /\ IsEvent(trace[c][i])
        /\ trace[c][i].event.type = "citation"
        /\ ~trace[c][i].raised

C5_MessageIffComments ==
    \A c \in Calls :
        EMIT_EVENTS[c] =>
            IF /\ response[c] # None
               /\ response[c].comments # <<>>
               /\ CitationReturned(c)
               /\ pc[c] # "comments"
            THEN MessageHoldsAll(c)
            ELSE EventsOfType(c, "message") = <<>>

C5_Witness ==
    \E c \in Calls :
        /\ EMIT_EVENTS[c]
        /\ Finished(c)
        /\ response[c] # None
        /\ Len(response[c].comments) = 2
        /\ response[c].comments[1].author # response[c].comments[2].author
        /\ Len(EventsOfType(c, "message")) = 1

(***************************************************************************)
(* C6: a call that received a non-2xx response to its issue request or to  *)
(* its comment request returns a string starting with "Error: " and does   *)
(* not raise.                                                              *)
(***************************************************************************)
GotNon2xx(c) ==
    \/ Len(Requests(c)) >= 1 /\ ~Is2xx(issueResp[c])
    \/ Len(Requests(c)) = 2 /\ ~Is2xx(commentResp[c])

C6_Non2xxReturnsError ==
    \A c \in Calls :
        (Finished(c) /\ GotNon2xx(c)) => ReturnedError(c)

(***************************************************************************)
(* C7: the record Jira.get_issue returns has exactly the keys title,       *)
(* description, status, link, comments; comments holds one                 *)
(* {author, body, created} per comment of the response, in the response's  *)
(* order, and is the empty list when the response has no "comments" key;   *)
(* the record is returned whenever both responses are well-formed.         *)
(***************************************************************************)
SourceComments(c) ==
    IF "comments" \in DOMAIN commentResp[c].body
    THEN commentResp[c].body.comments
    ELSE <<>>

WellFormed(c) ==
    /\ Jira_get(issueResp[c]).ok
    /\ issueResp[c].body = GoodIssueBody
    /\ Jira_get(commentResp[c]).ok
    /\ BadComment \notin Range(SourceComments(c))

C7_RecordShape ==
    \A c \in Calls :
        /\ response[c] # None =>
               /\ DOMAIN response[c] =
                      {"title", "description", "status", "link", "comments"}
               /\ response[c].link = <<valves.base_url, "/browse/", issue_id[c]>>
               /\ Len(response[c].comments) = Len(SourceComments(c))
               /\ \A i \in 1..Len(SourceComments(c)) :
                      /\ DOMAIN response[c].comments[i] = {"author", "body", "created"}
                      /\ response[c].comments[i].author =
                             SourceComments(c)[i].author.displayName
                      /\ response[c].comments[i].body = SourceComments(c)[i].body
                      /\ response[c].comments[i].created = SourceComments(c)[i].created
        /\ (Requests(c) # <<>> /\ WellFormed(c)) => response[c] # None

C7_Witness ==
    \E c \in Calls :
        /\ response[c] # None
        /\ Len(SourceComments(c)) = 2
        /\ SourceComments(c)[1] # SourceComments(c)[2]
        /\ response[c].comments[1] # response[c].comments[2]

(***************************************************************************)
(* C8: the issue request is issued first and the comment request second;   *)
(* the comment request is issued only when the issue request returned a    *)
(* body; when the comment fetch fails no issue record exists, the call     *)
(* does not return the JSON, and no citation or message event reaches the  *)
(* sink.                                                                   *)
(***************************************************************************)
C8_AllOrNothing ==
    \A c \in Calls :
        /\ Requests(c) \in {<<>>, <<Request(IssueEndpoint(issue_id[c]))>>,
                            BothRequests(c)}
        /\ Len(Requests(c)) = 2 <=> (Requests(c) # <<>> /\ Jira_get(issueResp[c]).ok)
        /\ (Len(Requests(c)) = 2 /\ ~Jira_get_comments(commentResp[c]).ok) =>
               /\ response[c] = None
               /\ ~ReturnedJson(c)
               /\ pc[c] = "returned" => ReturnedError(c)
               /\ EventsOfType(c, "citation") = <<>>
               /\ EventsOfType(c, "message") = <<>>

C8_Witness ==
    \E c \in Calls :
        /\ EMIT_EVENTS[c]
        /\ Len(Requests(c)) = 2
        /\ ~Jira_get_comments(commentResp[c]).ok
        /\ ReturnedError(c)

(***************************************************************************)
(* C10: with events enabled, every finished call has passed to the sink    *)
(* exactly one terminal status event (done = TRUE, status "complete"),     *)
(* that event is the last one passed, and it is marked success when the    *)
(* call returns the JSON and failure when it returns an "Error: " string.  *)
(***************************************************************************)
C10_OneTerminalStatus ==
    \A c \in Calls :
        (EMIT_EVENTS[c] /\ Finished(c)) =>
            /\ Len(TerminalStatuses(c)) = 1
            /\ IsTerminalStatus(trace[c][Len(trace[c])])
            /\ ReturnedJson(c) =>
                   Head(TerminalStatuses(c)[1].event.data.description) = "CHECK_MARK"
            /\ ReturnedError(c) =>
                   Head(TerminalStatuses(c)[1].event.data.description) = "CROSS_MARK"

SinkNeverRaised(c) == \A i \in 1..Len(SinkCalls(c)) : ~SinkCalls(c)[i].raised

Alone(sink, id, iresp, cresp, emit, raised) ==
    LET f == Jira_get_issue(Jira_init(valves.base_url), id, iresp, cresp)
        R(n) == n <= Len(raised) /\ raised[n]
        Ev(event, n) == SinkEntry(sink, event, R(n))
        Handle(pre, n, e) ==
            IF emit
            THEN [trace |-> Append(pre,
                     Ev(emit_status(<<"Failed to get issue ", id, ": ">> \o e.msg,
                                    TRUE, TRUE), n + 1)),
                  ret |-> IF R(n + 1) THEN Raised(SinkError)
                                      ELSE Returned(ErrorString(e))]
            ELSE [trace |-> pre, ret |-> Returned(ErrorString(e))]
        t1 == IF emit
              THEN <<Ev(emit_status(<<"Getting issue ", id>>, FALSE, FALSE), 1)>>
              ELSE <<>>
        n1 == Len(t1)
        t2 == t1 \o f.reqs
    IN  IF emit /\ R(1) THEN Handle(t1, n1, SinkError)
        ELSE IF ~f.out.ok THEN Handle(t2, n1, f.out.exc)
        ELSE
          LET rec == f.out.val
              t3 == IF emit
                    THEN Append(t2, Ev(emit_source(rec.title, rec.link,
                                                   rec.description, TRUE), n1 + 1))
                    ELSE t2
              n3 == IF emit THEN n1 + 1 ELSE n1
              msg == emit /\ rec.comments # <<>>
              t4 == IF msg
                    THEN Append(t3, Ev(emit_message(<<"Comments:\n\n">>
                                  \o comments_content(rec.comments)), n3 + 1))
                    ELSE t3
              n4 == IF msg THEN n3 + 1 ELSE n3
              t5 == IF emit
                    THEN Append(t4, Ev(emit_status(<<"Got issue ", id>>,
                                                   TRUE, FALSE), n4 + 1))
                    ELSE t4
          IN  IF emit /\ R(n3) THEN Handle(t3, n3, SinkError)
              ELSE IF msg /\ R(n4) THEN Handle(t4, n4, SinkError)
              ELSE IF emit /\ R(n4 + 1) THEN Handle(t5, n4 + 1, SinkError)
              ELSE [trace |-> t5, ret |-> Returned(json_dumps(rec))]

SinkOutcomes(c) == [i \in 1..Len(SinkCalls(c)) |-> SinkCalls(c)[i].raised]

AloneRun(c) ==
    Alone(c, issue_id[c], issueResp[c], commentResp[c], EMIT_EVENTS[c],
          SinkOutcomes(c))

RECURSIVE IsPrefix(_, _)
IsPrefix(s, t) ==
    \/ s = <<>>
    \/ /\ t # <<>>
       /\ Head(s) = Head(t)
       /\ IsPrefix(Tail(s), Tail(t))

(***************************************************************************)
(* C9: two invocations interleaved at any of their steps are independent:  *)
(* each call passes its events to its own sink only, at every moment what  *)
(* it has done is the beginning of what it does when run alone with the    *)
(* same HTTP responses and sink outcomes, and when it has finished its     *)
(* trace and its returned string equal those of the run alone.             *)
(***************************************************************************)
C9_ConcurrentCallsIndependent ==
    \A c \in Calls :
        /\ \A i \in 1..Len(SinkCalls(c)) : SinkCalls(c)[i].sink = c
        /\ Finished(c) =>
               /\ trace[c] = AloneRun(c).trace
               /\ ret[c] = AloneRun(c).ret
        /\ IsPrefix(trace[c], AloneRun(c).trace)

\* Call 1 has returned the JSON after four emissions while call 2, whose
\* comment request failed, is still in flight before its except clause.
C9_Witness ==
    /\ EMIT_EVENTS[1]
    /\ ReturnedJson(1)
    /\ Len(SinkCalls(1)) = 4
    /\ pc[2] = "except"
    /\ Len(Requests(2)) = 2
    /\ Len(SinkCalls(2)) = 1

====
